---- MODULE Spec2Model ----
(***************************************************************************)
(* Model of main.py: the specification classes (FileName, FolderNames,     *)
(* Extension, And/Or/Not), the generator SubjectFilter.filter and its      *)
(* consumer, and RecursiveFileLister with extract_file_info.               *)
(*                                                                         *)
(* A Python str is a sequence of one-character strings, so that lower(),   *)
(* the `in` substring test, split() and sort() are computed, not assumed.  *)
(* A Python value returned by is_satisfied is one of "True", "False",     *)
(* "None".                                                                *)
(***************************************************************************)
EXTENDS Integers, Sequences, FiniteSets, TLC

VARIABLES
    path,             \* RecursiveFileLister.path
    file_paths,       \* local of __call__: the sorted list of paths
    extracted_paths,  \* local of __call__: records extracted so far
    extracted_files,  \* main's variable: <<>> while unbound, <<list>> once rfl() returned
    mpc,              \* position of the __main__ block
    items,            \* argument of SubjectFilter.filter
    spec,             \* the specification tree under evaluation
    gen,              \* generator state: "none", "created", "suspended", "finished", "closed"
    idx,              \* number of items the for loop of filter has taken from items
    count,            \* local count of filter
    yielded,          \* the records handed to the consumer, in order
    stdout,           \* the lines printed, in order
    evaluated,        \* indices of items on which spec.is_satisfied was called, in order
    item,             \* the record a single is_satisfied call is applied to
    leaves,           \* the five primitives of the entry-point expression
    hist,             \* the is_satisfied calls made so far: [spec, val]
    trace,            \* call/return events of the last is_satisfied call
    epc               \* position of the single-evaluation driver

vars == <<path, file_paths, extracted_paths, extracted_files, mpc, items, spec,
          gen, idx, count, yielded, stdout, evaluated, item, leaves, hist,
          trace, epc>>

listerVars == <<path, file_paths, extracted_paths, extracted_files, mpc>>
filterVars == <<items, gen, idx, count, yielded, stdout, evaluated>>
evalVars   == <<item, leaves, hist, trace, epc>>

(***************************************************************************)
(* Bounds                                                                  *)
(***************************************************************************)
MaxFiles == 3      \* files found by one walk
MaxItems == 3      \* length of the input of filter
MaxArgs  == 2      \* children of an And / Or node
MaxTerms == 2      \* construction-time terms of a primitive

(***************************************************************************)
(* Python str and list primitives                                          *)
(***************************************************************************)
\* ord(c) for the characters used
Ord(c) ==
    CASE c = "." -> 46  [] c = "/" -> 47  [] c = "A" -> 65  [] c = "a" -> 97
      [] c = "b" -> 98  [] c = "e" -> 101 [] c = "g" -> 103 [] c = "o" -> 111
      [] c = "p" -> 112 [] c = "r" -> 114 [] c = "t" -> 116 [] c = "z" -> 122

\* str.lower()
lower(s) == [i \in 1..Len(s) |-> IF s[i] = "A" THEN "a" ELSE s[i]]

\* `x in y` for two str: x is a substring of y (the empty str is in every str)
str_in(x, y) ==
    \E i \in 0..(Len(y) - Len(x)) : SubSeq(y, i + 1, i + Len(x)) = x

\* str.find(c) / str.rfind(c) as 1-based positions, 0 when absent
find(s, c)  == IF \E i \in 1..Len(s) : s[i] = c
               THEN CHOOSE i \in 1..Len(s) : s[i] = c /\ \A j \in 1..(i - 1) : s[j] # c
               ELSE 0
rfind(s, c) == IF \E i \in 1..Len(s) : s[i] = c
               THEN CHOOSE i \in 1..Len(s) : s[i] = c /\ \A j \in (i + 1)..Len(s) : s[j] # c
               ELSE 0

\* str.rstrip(c)
RECURSIVE rstrip(_, _)
rstrip(s, c) ==
    IF Len(s) > 0 /\ s[Len(s)] = c THEN rstrip(SubSeq(s, 1, Len(s) - 1), c) ELSE s

\* str.split(c): every separator splits, empty pieces are kept
RECURSIVE split(_, _)
split(s, c) ==
    LET i == find(s, c)
    IN  IF i = 0 THEN <<s>>
        ELSE <<SubSeq(s, 1, i - 1)>> \o split(SubSeq(s, i + 1, Len(s)), c)

\* str.split('.', 1) with the last dot taken instead of the first
split_last(s, c) ==
    LET i == rfind(s, c)
    IN  IF i = 0 THEN <<s>>
        ELSE <<SubSeq(s, 1, i - 1), SubSeq(s, i + 1, Len(s))>>

\* str.partition-like split that never fails: a missing separator gives an empty tail
split_or_empty(s, c) ==
    LET i == find(s, c)
    IN  IF i = 0 THEN <<s, <<>>>>
        ELSE <<SubSeq(s, 1, i - 1), SubSeq(s, i + 1, Len(s))>>

\* str.split(c, 1): split at the first separator only; one piece when absent
split1(s, c) ==
    LET i == find(s, c)
    IN  IF i = 0 THEN <<s>>
        ELSE <<SubSeq(s, 1, i - 1), SubSeq(s, i + 1, Len(s))>>

\* s < t for two str (lexicographic by code point)
RECURSIVE str_lt(_, _)
str_lt(s, t) ==
    IF Len(t) = 0 THEN FALSE
    ELSE IF Len(s) = 0 THEN TRUE
    ELSE IF s[1] # t[1] THEN Ord(s[1]) < Ord(t[1])
    ELSE str_lt(Tail(s), Tail(t))

\* list.sort() on a list of str
RECURSIVE insert(_, _)
insert(sorted, p) ==
    IF sorted = <<>> THEN <<p>>
    ELSE IF str_lt(p, Head(sorted)) THEN <<p>> \o sorted
    ELSE <<Head(sorted)>> \o insert(Tail(sorted), p)

RECURSIVE sort(_)
sort(l) == IF l = <<>> THEN <<>> ELSE insert(sort(SubSeq(l, 1, Len(l) - 1)), l[Len(l)])

\* os.path.basename, os.path.dirname, os.path.join (posix)
basename(p) == SubSeq(p, rfind(p, "/") + 1, Len(p))

dirname(p) ==
    LET head == SubSeq(p, 1, rfind(p, "/"))
    IN  IF head # <<>> /\ \E i \in 1..Len(head) : head[i] # "/"
        THEN rstrip(head, "/") ELSE head

join(root, file) ==
    IF root = <<>> \/ root[Len(root)] = "/" THEN root \o file ELSE root \o <<"/">> \o file

(***************************************************************************)
(* RecursiveFileLister.extract_file_info                                   *)
(***************************************************************************)
\* file_name.split('.', 1), the value unpacked into (file_base_name, extension)
name_parts(file_name) == split1(file_name, ".")

\* the unpacking raises ValueError unless there are exactly two pieces
extract_raises(file_path) == Len(name_parts(basename(file_path))) # 2

extract_file_info(file_path) ==
    LET file_name    == basename(file_path)
        parts        == name_parts(file_name)
        folder_names == SelectSeq(split(dirname(file_path), "/"), LAMBDA x : x # <<>>)
    IN  [file_path      |-> file_path,
         file_name      |-> file_name,
         extension      |-> parts[2],
         file_base_name |-> parts[1],
         folder_names   |-> folder_names]

(***************************************************************************)
(* Specification classes.  A node is [op, terms, args]: a primitive keeps  *)
(* its construction-time terms, a combinator its children.                 *)
(***************************************************************************)
FileName(args)    == [op |-> "FileName",    terms |-> args, args |-> <<>>]
FolderNames(args) == [op |-> "FolderNames", terms |-> args, args |-> <<>>]
Extension(args)   == [op |-> "Extension",   terms |-> args, args |-> <<>>]

AndSpecification(args) == [op |-> "And", terms |-> <<>>, args |-> args]
OrSpecification(args)  == [op |-> "Or",  terms |-> <<>>, args |-> args]
NotSpecification(s)    == [op |-> "Not", terms |-> <<>>, args |-> <<s>>]

\* the & | ~ operators of Specification
__and__(self, other) == AndSpecification(<<self, other>>)
__or__(self, other)  == OrSpecification(<<self, other>>)
__invert__(self)     == NotSpecification(self)

PrimOps == {"FileName", "FolderNames", "Extension"}

\* truth value of a Python value, and the value of `not v`
Truthy(v) == v = "True"
py_not(v) == IF Truthy(v) THEN "False" ELSE "True"

\* FileName.is_satisfied: the loop returns True at the first term found in the
\* lowercased file name; falling off the end returns None
FileName_is_satisfied(self, it) ==
    LET item_file_names == lower(it.file_name)
    IN  IF \E i \in 1..Len(self.terms) : str_in(self.terms[i], item_file_names)
        THEN "True" ELSE "None"

\* FolderNames.is_satisfied: any term in any lowercased folder name
FolderNames_is_satisfied(self, it) ==
    LET item_folder_names == [k \in 1..Len(it.folder_names) |-> lower(it.folder_names[k])]
    IN  IF \E i \in 1..Len(self.terms) : \E k \in 1..Len(item_folder_names) :
               str_in(self.terms[i], item_folder_names[k])
        THEN "True" ELSE "None"

\* Extension.is_satisfied
Extension_is_satisfied(self, it) ==
    LET item_extension == lower(it.extension)
    IN  IF \E i \in 1..Len(self.terms) : str_in(self.terms[i], item_extension)
        THEN "True" ELSE "None"

\* events of one evaluation: a node is named by its path from the root
CallEv(p)   == [ev |-> "call", node |-> p, val |-> "-"]
RetEv(p, v) == [ev |-> "ret",  node |-> p, val |-> v]

RECURSIVE call(_, _, _)
RECURSIVE all(_, _, _, _)
RECURSIVE any(_, _, _, _)
RECURSIVE all_eager(_, _, _, _)

\* all([...]) over a list: every child is evaluated before the test
all_eager(args, i, it, p) ==
    IF i > Len(args) THEN [val |-> "True", trace |-> <<>>]
    ELSE LET r    == call(args[i], it, Append(p, i))
             rest == all_eager(args, i + 1, it, p)
         IN  [val   |-> IF Truthy(r.val) THEN rest.val ELSE "False",
              trace |-> r.trace \o rest.trace]

\* all(spec.is_satisfied(item) for spec in self.args) from child i on: the
\* generator is consumed in order and dropped at the first falsy value
all(args, i, it, p) ==
    IF i > Len(args) THEN [val |-> "True", trace |-> <<>>]
    ELSE LET r == call(args[i], it, Append(p, i))
         IN  IF ~Truthy(r.val) THEN [val |-> "False", trace |-> r.trace]
             ELSE LET rest == all(args, i + 1, it, p)
                  IN  [val |-> rest.val, trace |-> r.trace \o rest.trace]

\* any(spec.is_satisfied(item) for spec in self.args) from child i on
any(args, i, it, p) ==
    IF i > Len(args) THEN [val |-> "False", trace |-> <<>>]
    ELSE LET r == call(args[i], it, Append(p, i))
         IN  IF Truthy(r.val) THEN [val |-> "True", trace |-> r.trace]
             ELSE LET rest == any(args, i + 1, it, p)
                  IN  [val |-> rest.val, trace |-> r.trace \o rest.trace]

\* NotSpecification.is_satisfied
not_is_satisfied(self, it, p) ==
    LET r == call(self.args[1], it, Append(p, 1))
    IN  [val |-> py_not(r.val), trace |-> r.trace]

\* s.is_satisfied(it) for the node s at path p: dynamic dispatch on the class
call(s, it, p) ==
    LET r == CASE s.op = "And"         -> all(s.args, 1, it, p)
               [] s.op = "Or"          -> any(s.args, 1, it, p)
               [] s.op = "Not"         -> not_is_satisfied(s, it, p)
               [] s.op = "FileName"    -> [val |-> FileName_is_satisfied(s, it), trace |-> <<>>]
               [] s.op = "FolderNames" -> [val |-> FolderNames_is_satisfied(s, it), trace |-> <<>>]
               [] s.op = "Extension"   -> [val |-> Extension_is_satisfied(s, it), trace |-> <<>>]
    IN  [val |-> r.val, trace |-> <<CallEv(p)>> \o r.trace \o <<RetEv(p, r.val)>>]

is_satisfied(s, it) == call(s, it, <<>>).val

(***************************************************************************)
(* SubjectFilter.filter: a generator.  One next() of the consumer runs the *)
(* body from where it was suspended to the next yield, or to the print     *)
(* after the loop.                                                         *)
(***************************************************************************)
FoundLine(c)   == [text |-> "found",   count |-> c, file_path |-> <<>>]
ProcessLine(r) == [text |-> "process", count |-> 0, file_path |-> r.file_path]

RECURSIVE filter_loop(_, _, _, _, _)
RECURSIVE filter_loop_eager(_, _, _, _, _)
RECURSIVE filter_loop_negated(_, _, _, _, _)

\* a filter over a list built up front: every item is tested before the first
\* match is handed out
filter_loop_eager(its, sp, i, c, ev) ==
    LET every == [k \in 1..Len(its) |-> k]
    IN  IF i >= Len(its)
        THEN [state |-> "finished", idx |-> i, count |-> c, evaluated |-> every,
              yield |-> <<>>, print |-> <<FoundLine(c)>>]
        ELSE IF Truthy(is_satisfied(sp, its[i + 1]))
        THEN [state |-> "suspended", idx |-> i + 1, count |-> c + 1,
              evaluated |-> every, yield |-> <<its[i + 1]>>, print |-> <<>>]
        ELSE filter_loop_eager(its, sp, i + 1, c, every)

\* a filter with the test inverted
filter_loop_negated(its, sp, i, c, ev) ==
    IF i >= Len(its)
    THEN [state |-> "finished", idx |-> i, count |-> c, evaluated |-> ev,
          yield |-> <<>>, print |-> <<FoundLine(c)>>]
    ELSE IF ~Truthy(is_satisfied(sp, its[i + 1]))
    THEN [state |-> "suspended", idx |-> i + 1, count |-> c + 1,
          evaluated |-> Append(ev, i + 1), yield |-> <<its[i + 1]>>, print |-> <<>>]
    ELSE filter_loop_negated(its, sp, i + 1, c, Append(ev, i + 1))

\* the body of filter resumed with i items taken and count = c:
\*   for item in items: if spec.is_satisfied(item): count += 1; yield item
\*   print(f'found {count} files')
filter_loop(its, sp, i, c, ev) ==
    IF i >= Len(its)
    THEN [state |-> "finished", idx |-> i, count |-> c, evaluated |-> ev,
          yield |-> <<>>, print |-> <<FoundLine(c)>>]
    ELSE IF Truthy(is_satisfied(sp, its[i + 1]))
    THEN [state |-> "suspended", idx |-> i + 1, count |-> c + 1,
          evaluated |-> Append(ev, i + 1), yield |-> <<its[i + 1]>>, print |-> <<>>]
    ELSE filter_loop(its, sp, i + 1, c, Append(ev, i + 1))

\* the consumer calls next() on a generator that can still run
filter_next ==
    /\ gen \in {"created", "suspended"}
    /\ LET r == filter_loop(items, spec, idx, count, evaluated)
       IN  /\ gen' = r.state
           /\ idx' = r.idx
           /\ count' = r.count
           /\ evaluated' = r.evaluated
           /\ yielded' = yielded \o r.yield
           /\ stdout' = stdout \o r.print
    /\ UNCHANGED <<items, spec>>
    /\ UNCHANGED listerVars
    /\ UNCHANGED evalVars

\* a filter whose print sits in a finally block: closing the generator prints too
filter_close_finally ==
    /\ gen \in {"created", "suspended"}
    /\ gen' = "closed"
    /\ stdout' = IF gen = "suspended" THEN Append(stdout, FoundLine(count)) ELSE stdout
    /\ UNCHANGED <<items, spec, idx, count, yielded, evaluated>>
    /\ UNCHANGED listerVars
    /\ UNCHANGED evalVars

\* the consumer stops pulling and drops the generator: GeneratorExit is raised
\* at the yield (or the body never starts); the print is not reached
filter_close ==
    /\ gen \in {"created", "suspended"}
    /\ gen' = "closed"
    /\ UNCHANGED <<items, spec, idx, count, yielded, stdout, evaluated>>
    /\ UNCHANGED listerVars
    /\ UNCHANGED evalVars

(***************************************************************************)
(* RecursiveFileLister.__call__ and the __main__ block                     *)
(***************************************************************************)
\* the entries a walk can find below self.path: [dir, file], dir relative to the root
FsEntries ==
    { [dir |-> <<"b">>,           file |-> <<"r","e","p","o","r","t",".","t","a","r",".","g","z">>],
      [dir |-> <<>>,              file |-> <<"A",".","b">>],
      [dir |-> <<>>,              file |-> <<".","b">>],
      [dir |-> <<"b">>,           file |-> <<"b",".","A">>],
      [dir |-> <<>>,              file |-> <<"a">>],
      [dir |-> <<"a",".","b">>,   file |-> <<"b">>] }

Roots == { <<"/","a">>, <<"A">> }

\* os.walk(self.path) is top-down: the files of the root first, then those of
\* each sub-directory, files of one directory together, in listing order
Walks ==
    UNION { { w \in [1..n -> FsEntries] :
                /\ \A i, j \in 1..n : i # j => w[i] # w[j]
                /\ \A i, j \in 1..n : (i < j /\ w[j].dir = <<>>) => w[i].dir = <<>>
                /\ \A i, j, k \in 1..n : (i < k /\ k < j /\ w[i].dir = w[j].dir)
                                           => w[k].dir = w[i].dir }
            : n \in 0..MaxFiles }

\* os.path.join(root, file) for the root of one walk step
walk_path(top, e) == join(IF e.dir = <<>> THEN top ELSE join(top, e.dir), e.file)

\* for file_path in file_paths: extracted_paths.append(self.extract_file_info(file_path))
RECURSIVE extract_loop(_, _, _)
extract_loop(fps, i, acc) ==
    IF i > Len(fps) THEN [raised |-> FALSE, acc |-> acc]
    ELSE IF extract_raises(fps[i]) THEN [raised |-> TRUE, acc |-> acc]
    ELSE extract_loop(fps, i + 1, Append(acc, extract_file_info(fps[i])))

\* extracted_files = rfl(): walk, sort, extract; a ValueError leaves
\* extracted_files unbound and ends the program
main_rfl ==
    /\ mpc = "start"
    /\ \E w \in Walks :
         LET found == [i \in 1..Len(w) |-> walk_path(path, w[i])]
             fps   == sort(found)
             r     == extract_loop(fps, 1, <<>>)
         IN  /\ file_paths' = fps
             /\ extracted_paths' = r.acc
             /\ extracted_files' = IF r.raised THEN <<>> ELSE <<r.acc>>
             /\ mpc' = IF r.raised THEN "raised" ELSE "listed"
    /\ UNCHANGED <<path, spec>>
    /\ UNCHANGED filterVars
    /\ UNCHANGED evalVars

\* sf.filter(extracted_files, <expression>): the generator object is created
main_filter ==
    /\ mpc = "listed"
    /\ items' = extracted_files[1]
    /\ gen' = "created"
    /\ mpc' = "loop"
    /\ UNCHANGED <<idx, count, yielded, stdout, evaluated, spec>>
    /\ UNCHANGED <<path, file_paths, extracted_paths, extracted_files>>
    /\ UNCHANGED evalVars

\* one iteration of `for subject in ...: print(f'process -> ...')`
main_loop ==
    /\ mpc = "loop"
    /\ LET r == filter_loop(items, spec, idx, count, evaluated)
       IN  /\ gen' = r.state
           /\ idx' = r.idx
           /\ count' = r.count
           /\ evaluated' = r.evaluated
           /\ yielded' = yielded \o r.yield
           /\ stdout' = stdout \o r.print
                          \o [k \in 1..Len(r.yield) |-> ProcessLine(r.yield[k])]
           /\ mpc' = IF r.state = "finished" THEN "done" ELSE "loop"
    /\ UNCHANGED <<items, spec>>
    /\ UNCHANGED <<path, file_paths, extracted_paths, extracted_files>>
    /\ UNCHANGED evalVars

(***************************************************************************)
(* A single is_satisfied call, the ~ operator, and the entry-point         *)
(* expression                                                              *)
(***************************************************************************)
\* the expression of __main__ folded left to right, without precedence
main_expr_flat(l) ==
    __and__(__and__(__and__(__or__(l[1], l[2]), __invert__(l[3])), l[4]), l[5])

\* A | B & ~C & D & E as Python parses it: ~ first, then & (left-associative), then |
main_expr(l) ==
    __or__(l[1], __and__(__and__(__and__(l[2], __invert__(l[3])), l[4]), l[5]))

\* result = spec.is_satisfied(item)
Evaluate ==
    /\ epc = "ready"
    /\ LET r == call(spec, item, <<>>)
       IN  /\ hist' = Append(hist, [spec |-> spec, val |-> r.val])
           /\ trace' = r.trace
    /\ epc' = "evaluated"
    /\ UNCHANGED <<spec, item, leaves>>
    /\ UNCHANGED listerVars
    /\ UNCHANGED filterVars

\* spec = ~spec
Invert ==
    /\ epc = "evaluated"
    /\ Len(hist) < 3
    /\ spec' = __invert__(spec)
    /\ epc' = "ready"
    /\ UNCHANGED <<item, leaves, hist, trace>>
    /\ UNCHANGED listerVars
    /\ UNCHANGED filterVars

\* the operands are built, then the operators combine them
Compose ==
    /\ epc = "operands"
    /\ spec' = main_expr(leaves)
    /\ epc' = "ready"
    /\ UNCHANGED <<item, leaves, hist, trace>>
    /\ UNCHANGED listerVars
    /\ UNCHANGED filterVars

(***************************************************************************)
(* Input domains                                                           *)
(***************************************************************************)
TermSet == { <<"a">>, <<"A">>, <<"b">> }

TermLists == UNION { [1..n -> TermSet] : n \in 0..MaxTerms }

Prims == { FileName(t) : t \in TermLists } \cup { FolderNames(t) : t \in TermLists }
            \cup { Extension(t) : t \in TermLists }

\* the records of the files with a dot in their name
RecordsUnder(top) ==
    { extract_file_info(walk_path(top, e)) :
        e \in { x \in FsEntries : ~extract_raises(walk_path(top, x)) } }

FilterRecords == RecordsUnder(<<"/","a">>)
EvalRecords   == UNION { RecordsUnder(top) : top \in Roots }

Pool == { FileName(<< <<"a">> >>), FileName(<< <<"b">> >>),
          FolderNames(<< <<"b">>, <<"A">> >>), Extension(<< <<"b">>, <<"g">> >>) }

Kids == Pool \cup { NotSpecification(s) : s \in Pool }
          \cup { AndSpecification(<< FileName(<< <<"a">> >>), Extension(<< <<"b">> >>) >>),
                 OrSpecification(<< FolderNames(<< <<"b">> >>), FileName(<< <<"b">> >>) >>) }

ArgLists == UNION { [1..n -> Kids] : n \in 1..MaxArgs }

EvalSpecs == Prims \cup Kids \cup { AndSpecification(a) : a \in ArgLists }
               \cup { OrSpecification(a) : a \in ArgLists }

MainLeaves == << FileName(<< <<"a">> >>), FileName(<< <<"b">> >>), FileName(<< <<"g">> >>),
                 FolderNames(<< <<"b">>, <<"z">> >>), Extension(<< <<"b">>, <<"g">> >>) >>

MainSpecs == { main_expr(MainLeaves), NotSpecification(FileName(<< <<"r">> >>)) }

FilterSpecs == MainSpecs \cup
    { FileName(<< <<"a">> >>), Extension(<< <<"b">>, <<"g">> >>), FileName(<<>>),
      NotSpecification(NotSpecification(FolderNames(<< <<"b">> >>))),
      AndSpecification(<< FileName(<< <<"a">> >>), NotSpecification(Extension(<< <<"a">> >>)) >>) }

ItemLists == UNION { [1..n -> FilterRecords] : n \in 0..MaxItems }

(***************************************************************************)
(* Specifications                                                          *)
(***************************************************************************)
ListerIdle ==
    /\ path = <<"/","a">>
    /\ file_paths = <<>>
    /\ extracted_paths = <<>>
    /\ extracted_files = <<>>
    /\ mpc = "off"

FilterIdle ==
    /\ items = <<>>
    /\ gen = "none"
    /\ idx = 0
    /\ count = 0
    /\ yielded = <<>>
    /\ stdout = <<>>
    /\ evaluated = <<>>

EvalIdle ==
    /\ item = CHOOSE r \in EvalRecords : TRUE
    /\ leaves = MainLeaves
    /\ hist = <<>>
    /\ trace = <<>>
    /\ epc = "off"

\* the __main__ block: rfl(), then the filter loop
InitMain ==
    /\ path \in Roots
    /\ file_paths = <<>>
    /\ extracted_paths = <<>>
    /\ extracted_files = <<>>
    /\ mpc = "start"
    /\ spec \in MainSpecs
    /\ FilterIdle
    /\ EvalIdle

NextMain == main_rfl \/ main_filter \/ main_loop

SpecMain == InitMain /\ [][NextMain]_vars

\* sf.filter(items, spec) called on any list of records, with any consumer
InitFilter ==
    /\ ListerIdle
    /\ EvalIdle
    /\ items \in ItemLists
    /\ spec \in FilterSpecs
    /\ gen = "created"
    /\ idx = 0
    /\ count = 0
    /\ yielded = <<>>
    /\ stdout = <<>>
    /\ evaluated = <<>>

NextFilter == filter_next \/ filter_close

SpecFilter == InitFilter /\ [][NextFilter]_vars

\* one specification applied to one record, then negated and applied again
InitEval ==
    /\ ListerIdle
    /\ FilterIdle
    /\ spec \in EvalSpecs
    /\ item \in EvalRecords
    /\ leaves = MainLeaves
    /\ hist = <<>>
    /\ trace = <<>>
    /\ epc = "ready"

NextEval == Evaluate \/ Invert

SpecEval == InitEval /\ [][NextEval]_vars

\* the entry-point expression over any five primitives, applied to one record
InitExpr ==
    /\ ListerIdle
    /\ FilterIdle
    /\ leaves \in [1..5 -> Pool]
    /\ spec = leaves[1]
    /\ item \in EvalRecords
    /\ hist = <<>>
    /\ trace = <<>>
    /\ epc = "operands"

NextExpr == Compose \/ Evaluate

SpecExpr == InitExpr /\ [][NextExpr]_vars

(***************************************************************************)
(* Properties                                                              *)
(***************************************************************************)

\* C1: once the consumer has fully consumed filter(items, spec), the records
\* it received are exactly the subsequence of items on which spec.is_satisfied
\* is true, each occurrence once and in input order.
C1_FilterYieldsMatchingSubsequence ==
    gen = "finished" =>
        yielded = SelectSeq(items, LAMBDA r : Truthy(is_satisfied(spec, r)))

\* a pass over three records of which exactly two match has been consumed
C1_Witness ==
    /\ gen = "finished"
    /\ Len(items) = 3
    /\ Len(yielded) = 2
    /\ \E i \in 1..3 : ~Truthy(is_satisfied(spec, items[i]))

\* C2: 'found <count> files' is printed iff the consumer pulls until the input
\* is exhausted; then once, after the last record was yielded, with count the
\* number of records yielded; a consumer that stops early never sees it.
C2_CountReportedIffExhausted ==
    /\ [](/\ (stdout # <<>>) <=> (gen = "finished")
          /\ gen = "finished" => /\ stdout = <<FoundLine(Len(yielded))>>
                                 /\ Len(yielded) = Cardinality({i \in 1..Len(items) :
                                                      Truthy(is_satisfied(spec, items[i]))})
          /\ gen = "closed" => stdout = <<>>)
    /\ [][(stdout # <<>> \/ gen = "closed") => (yielded' = yielded /\ stdout' = stdout)]_vars

\* a fully consumed pass that yielded two records printed 'found 2 files'
C2_Witness ==
    /\ gen = "finished"
    /\ Len(yielded) = 2
    /\ stdout = <<FoundLine(2)>>

\* C3: the specification is evaluated on the records in input order, each at
\* most once; when a record is handed to the consumer it is the last one
\* evaluated; once the consumer has stopped, nothing more is evaluated.
C3_PullDriven ==
    /\ [](/\ evaluated = [k \in 1..Len(evaluated) |-> k]
          /\ Len(evaluated) <= Len(items)
          /\ gen = "suspended" =>
                /\ Len(yielded) > 0 /\ Len(evaluated) > 0
                /\ items[evaluated[Len(evaluated)]] = yielded[Len(yielded)]
                /\ Len(evaluated) = idx
          /\ gen = "created" => evaluated = <<>>)
    /\ [][(gen = "closed" \/ gen' = "closed") => evaluated' = evaluated]_vars

\* the second of three records was handed out after the first was rejected,
\* and the third has not been looked at
C3_Witness ==
    /\ gen = "suspended"
    /\ Len(items) = 3
    /\ evaluated = <<1, 2>>
    /\ Len(yielded) = 1

\* C4: a primitive's is_satisfied always returns one of the two booleans.
C4_PrimitiveReturnsBoolean ==
    (epc = "evaluated" /\ spec.op \in PrimOps) =>
        hist[Len(hist)].val \in {"True", "False"}

\* C5: FileName(terms).is_satisfied(record) is true iff the lowercased
\* file_name contains the lowercased form of at least one term.
C5_FileNameCaseInsensitive ==
    (epc = "evaluated" /\ spec.op = "FileName") =>
        (Truthy(hist[Len(hist)].val) <=>
            \E i \in 1..Len(spec.terms) :
                str_in(lower(spec.terms[i]), lower(item.file_name)))

\* C6: Not(Not(S)).is_satisfied(R) returns the same value as S.is_satisfied(R).
C6_DoubleNegationSameValue ==
    \A i, j \in 1..Len(hist) :
        hist[j].spec = NotSpecification(NotSpecification(hist[i].spec))
            => hist[j].val = hist[i].val

\* C7: And and Or evaluate their children left to right and short-circuit: a
\* child is called only after every child to its left has returned, with a
\* true value under And and a false value under Or; no node is called twice.
C7_LeftToRightShortCircuit ==
    epc = "evaluated" =>
        LET RECURSIVE NodeAt(_, _)
            NodeAt(s, p) == IF p = <<>> THEN s ELSE NodeAt(s.args[Head(p)], Tail(p))
            Calls == {k \in 1..Len(trace) : trace[k].ev = "call"}
        IN  /\ \A k1, k2 \in Calls : trace[k1].node = trace[k2].node => k1 = k2
            /\ \A k \in Calls :
                 LET p == trace[k].node
                 IN  p # <<>> =>
                       LET parent == SubSeq(p, 1, Len(p) - 1)
                           j      == p[Len(p)]
                           par    == NodeAt(spec, parent)
                       IN  par.op \in {"And", "Or"} =>
                             \A i \in 1..(j - 1) :
                               \E k0 \in 1..(k - 1) :
                                 /\ trace[k0].ev = "ret"
                                 /\ trace[k0].node = Append(parent, i)
                                 /\ Truthy(trace[k0].val) <=> (par.op = "And")

\* an And of two children whose first child was false: the second was not called
C7_Witness ==
    /\ epc = "evaluated"
    /\ spec.op = "And"
    /\ Len(spec.args) = 2
    /\ \E k \in 1..Len(trace) :
          trace[k].ev = "ret" /\ trace[k].node = <<1>> /\ ~Truthy(trace[k].val)
    /\ \A k \in 1..Len(trace) : trace[k].node # <<2>>

\* C8: for a path whose final component has a dot, the name is split at the
\* first dot only: file_name = file_base_name + "." + extension, the base name
\* has no dot, and folder_names are the non-empty directory segments in order.
C8_ExtractSplitsAtFirstDot ==
    \A i \in 1..Len(extracted_paths) :
        LET r == extracted_paths[i]
            RECURSIVE lstrip(_)
            lstrip(x) == IF x # <<>> /\ Head(x) = "/" THEN lstrip(Tail(x)) ELSE x
            RECURSIVE joined(_)
            joined(l) == IF Len(l) = 1 THEN l[1] ELSE l[1] \o <<"/">> \o joined(Tail(l))
        IN  /\ r.file_path = file_paths[i]
            /\ r.file_name = r.file_base_name \o <<".">> \o r.extension
            /\ \A k \in 1..Len(r.file_base_name) : r.file_base_name[k] # "."
            /\ \A f \in 1..Len(r.folder_names) :
                  /\ r.folder_names[f] # <<>>
                  /\ \A k \in 1..Len(r.folder_names[f]) : r.folder_names[f][k] # "/"
            /\ lstrip(r.file_path) = joined(Append(r.folder_names, r.file_name))
            /\ r.file_path = <<"/","a","/","b","/","r","e","p","o","r","t",".","t","a","r",".","g","z">>
                 => /\ r.file_base_name = <<"r","e","p","o","r","t">>
                    /\ r.extension = <<"t","a","r",".","g","z">>
                    /\ r.folder_names = << <<"a">>, <<"b">> >>

\* the record of /a/b/report.tar.gz has been extracted and returned
C8_Witness ==
    /\ mpc = "listed"
    /\ \E i \in 1..Len(extracted_paths) :
          /\ extracted_paths[i].file_name = <<"r","e","p","o","r","t",".","t","a","r",".","g","z">>
          /\ extracted_paths[i].folder_names = << <<"a">>, <<"b">> >>

\* C9: when a found file has no dot in its name, the lister call raises: no
\* record list is returned, not even the records extracted before the
\* offending path, and no filter pass is started.
C9_DotlessNameAbortsScan ==
    (/\ mpc # "start"
     /\ \E i \in 1..Len(file_paths) :
           \A k \in 1..Len(basename(file_paths[i])) : basename(file_paths[i])[k] # ".")
    => /\ mpc = "raised"
       /\ extracted_files = <<>>
       /\ gen = "none"
       /\ items = <<>>
       /\ yielded = <<>>
       /\ stdout = <<>>

\* the call raised after records of earlier paths had already been extracted
C9_Witness ==
    /\ mpc = "raised"
    /\ Len(extracted_paths) >= 1
    /\ Len(file_paths) > Len(extracted_paths)
    /\ extracted_files = <<>>

\* C10: the tree the operators build for A | B & ~C & D & E is satisfied by
\* exactly the records that satisfy Or(A, And(B, Not(C), D, E)).
C10_OperatorTreeEqualsExplicitTree ==
    epc = "evaluated" =>
        (Truthy(hist[Len(hist)].val) <=>
            Truthy(is_satisfied(
                OrSpecification(<<leaves[1],
                    AndSpecification(<<leaves[2], NotSpecification(leaves[3]),
                                       leaves[4], leaves[5]>>)>>), item)))

\* A alone satisfies the expression although D is false on the record
C10_Witness ==
    /\ epc = "evaluated"
    /\ spec.op = "Or"
    /\ Truthy(is_satisfied(leaves[1], item))
    /\ Truthy(is_satisfied(leaves[2], item))
    /\ ~Truthy(is_satisfied(leaves[4], item))
    /\ Truthy(hist[Len(hist)].val)

====
